---------------------------- MODULE Spec2Model ----------------------------
(***************************************************************************)
(* A model of the googet package manager: the state store (googetdb), the  *)
(* install and remove commands and the process lockfile.                   *)
(*                                                                         *)
(* The specifications share the variables:                                 *)
(*   SpecDB    the public operations of the state store on their own;      *)
(*   Spec      the install and remove commands run by one engine process;  *)
(*   SpecLock  engine processes competing for the lockfile;                *)
(*   SpecOpen, SpecLatest, SpecSat   NewDB, FindRepoLatest and             *)
(*             SatisfiesVersion on their own;                              *)
(*   SpecExec  a command line of several arguments;                        *)
(*   SpecCall  verify, update, check and ListDeps called on their own,     *)
(*             SpecCallFair with the call run to its end;                  *)
(*   SpecRepo  AvailableVersions and the cache of the repository indexes;  *)
(*   SpecServe gooserve, its periodic runSync and its index handler.       *)
(***************************************************************************)
EXTENDS Naturals, Integers, Sequences, FiniteSets, TLC

VARIABLES
    db,         \* the rows of table InstalledPackages (one PackageState per row)
    lastOp,     \* SpecDB: the last store operation called and whether it returned an error
    fetched,    \* SpecDB: what the last FetchPkg (a PackageState) or FetchPkgs (a list) returned
    lpc,        \* SpecLock: where each engine process is
    fd,         \* SpecLock: the file (inode) each process has open, 0 for none
    held,       \* SpecLock: the flock each process holds on its open file
    path,       \* SpecLock: the file the lockfile's name leads to, 0 for none
    pidIn,      \* SpecLock: the PID written in each file, 0 for none
    old,        \* SpecLock: the files whose mtime is older than lockFileMaxAge
    pc,         \* Spec: where the running command is, "idle" between commands
    cmd,        \* Spec: the command line being run, or run last
    root,       \* Spec: the package the install argument resolved to
    state,      \* Spec: the GooGetState the install command holds in memory
    frames,     \* Spec: the packages FromRepo is installing, innermost first
    todo,       \* Spec: the packages remove has still to remove, in order
    did,        \* Spec: the downloads, extractions and scripts of this command
    res,        \* Spec: how the command ended
    args,       \* the arguments of the function a specification calls
    ret         \* what the function returned

dbVars == <<db, lastOp, fetched>>
lockVars == <<lpc, fd, held, path, pidIn, old>>
cmdVars == <<pc, cmd, root, state, frames, todo, did, res>>
callVars == <<args, ret>>
vars == <<db, lastOp, fetched, lpc, fd, held, path, pidIn, old,
          pc, cmd, root, state, frames, todo, did, res, args, ret>>

----------------------------------------------------------------------------
(* Bounds and domains *)

\* Versions are 1..MaxVer; 0 stands for the empty version string.
MaxVer == 2
\* The longest batch handed to WriteStateToDB.
MaxBatch == 2
\* The engine processes that may be started at the same time.
NumProcs == 2

Versions == 1..MaxVer
\* "" is the arch of a PkgSpec that names none (googetdb_test.go:38).
Archs == {"", "noarch", "x86_64"}

----------------------------------------------------------------------------
(* client.PackageState, with the fields of its PackageSpec that the model  *)
(* reads, and InstalledFiles as the set of its paths.                      *)

PackageState(n, a, v, d, c, p, f) ==
    [name |-> n, arch |-> a, ver |-> v, deps |-> d, conflicts |-> c,
     provides |-> p, replaces |-> {}, files |-> f]

\* The package with PkgSpec.Replaces set: the <<name, arch>> it replaces.
Replacing(ps, r) == [ps EXCEPT !.replaces = r]

\* PackageState{}: no PackageSpec, no InstalledFiles.
EmptyState == PackageState("", "", 0, {}, {}, {}, {})

\* A PackageState without PackageSpec is taken for an installed package.
HasSpec_always(ps) == TRUE

\* ps.PackageSpec != nil
HasSpec(ps) == ps.name # ""

\* The path a package's payload is installed under.
FilesOf(n, a) == {<<n, a>>}

\* The states the store operations are exercised with.
DBStates ==
    {PackageState("A", a, v, {}, {}, {}, FilesOf("A", a)) :
        a \in {"", "noarch"}, v \in Versions}
    \cup {PackageState("B", "noarch", 1, {}, {}, {}, FilesOf("B", "noarch"))}

DBNames == {"A", "B"}

Batches == UNION {[1..n -> DBStates] : n \in 0..MaxBatch}

----------------------------------------------------------------------------
(* googetdb: the state store *)

\* The table of createDB: no row.
createDB == {}

\* addPkg on a table without UNIQUE(PkgName, PkgArch) ON CONFLICT REPLACE:
\* the insert never replaces.
addPkg_noUnique(rows, ps) == rows \cup {ps}

\* stateQuery run by addPkg: INSERT or REPLACE on a table with
\* UNIQUE(PkgName, PkgArch) ON CONFLICT REPLACE deletes the row of the same
\* (name, arch), then inserts.
addPkg(rows, ps) ==
    {r \in rows : ~(r.name = ps.name /\ r.arch = ps.arch)} \cup {ps}

\* The rows after addPkg of the first k entries of batch b, each in its own
\* committed transaction.
RECURSIVE addPkgs(_, _, _)
addPkgs(rows, b, k) ==
    IF k = 0 THEN rows ELSE addPkg(addPkgs(rows, b, k - 1), b[k])

\* WriteStateToDB(b): addPkg entry by entry, returning at the first error.
\* fail = 0: no addPkg fails; fail = k > 0: the addPkg of b[k] fails (Begin,
\* Marshal, Exec or Commit returns an error) and rolls its own transaction back.
WriteStateRows(rows, b, fail) ==
    IF fail = 0 THEN addPkgs(rows, b, Len(b)) ELSE addPkgs(rows, b, fail - 1)

\* The entries of b[1..k] that a later entry of b[1..k] does not overwrite.
LastOfKey(b, k) ==
    {b[i] : i \in {i \in 1..k :
        \A j \in (i + 1)..k : ~(b[j].name = b[i].name /\ b[j].arch = b[i].arch)}}

\* RemovePkg(name, arch): DELETE ... where PkgName = name and PkgArch = arch.
RemoveRows(rows, name, arch) ==
    {r \in rows : ~(r.name = name /\ r.arch = arch)}

\* json.Unmarshal of one more row into the same pkgState variable: the string
\* fields and the PackageSpec are those of the row; a null InstalledFiles sets
\* the map to nil, an object is decoded into the existing map, whose entries
\* stay.
Unmarshal(acc, row) ==
    [row EXCEPT !.files = IF row.files = {} THEN {} ELSE acc.files \cup row.files]

RECURSIVE UnmarshalAll(_, _)
UnmarshalAll(s, k) ==
    IF k = 0 THEN EmptyState ELSE Unmarshal(UnmarshalAll(s, k - 1), s[k])

\* The orders in which a query may return the set S of rows.
Orders(S) ==
    {s \in [1..Cardinality(S) -> S] : \A i, j \in 1..Cardinality(S) : s[i] = s[j] => i = j}

\* FetchPkg(name): every row WHERE PkgName = name is scanned into one
\* pkgState; ORDER BY PkgName leaves the order among them open.  The set of
\* the PackageStates the call may return.
FetchPkg(rows, name) ==
    LET match == {r \in rows : r.name = name}
    IN  {UnmarshalAll(s, Cardinality(match)) : s \in Orders(match)}

\* FetchPkgs(): the query yields the PkgName of every row, in an order the
\* statement leaves open, and FetchPkg(pkgName) is called and appended for each.
\* The set of the lists the call may return.
FetchPkgs(rows) ==
    LET n == Cardinality(rows)
        any == UNION {FetchPkg(rows, r.name) : r \in rows}
    IN  {t \in [1..n -> any] :
            \E s \in Orders(rows) : \A i \in 1..n : t[i] \in FetchPkg(rows, s[i].name)}

----------------------------------------------------------------------------
(* The lockfile: system.lock and the processes that call it *)

Procs == 1..NumProcs
\* A process holds one file open and the name leads to one more.
Inodes == 1..(NumProcs + 1)

\* No process started, no lockfile.
LockIdle ==
    /\ lpc = [p \in Procs |-> "start"]
    /\ fd = [p \in Procs |-> 0]
    /\ held = [p \in Procs |-> "none"]
    /\ path = 0
    /\ pidIn = [i \in Inodes |-> 0]
    /\ old = {}

\* isGooGetRunning(pid): the stub answers that no PID is a running googet.
isGooGetRunning(pid) == FALSE

\* flock(LOCK_EX) on file i is granted to p when no other open file holds a
\* lock, shared or exclusive, on i.
flockGranted(p, i) == \A q \in Procs \ {p} : ~(fd[q] = i /\ held[q] # "none")

\* A file no name and no process refers to.
FreeInode == CHOOSE i \in Inodes : path # i /\ \A q \in Procs : fd[q] # i

\* The process opens the lockfile by its name, creating it when there is none.
OpenLockFile(p) ==
    /\ lpc[p] = "start"
    /\ IF path = 0
       THEN /\ path' = FreeInode
            /\ pidIn' = [pidIn EXCEPT ![FreeInode] = 0]
            /\ old' = old \ {FreeInode}
            /\ fd' = [fd EXCEPT ![p] = FreeInode]
       ELSE /\ fd' = [fd EXCEPT ![p] = path]
            /\ UNCHANGED <<path, pidIn, old>>
    /\ lpc' = [lpc EXCEPT ![p] = "opened"]
    /\ UNCHANGED held

\* lock: syscall.Flock(fd, LOCK_EX) returns once the lock is granted.
lockExclusive(p) ==
    /\ lpc[p] = "opened"
    /\ flockGranted(p, fd[p])
    /\ held' = [held EXCEPT ![p] = "ex"]
    /\ lpc' = [lpc EXCEPT ![p] = "locked"]
    /\ UNCHANGED <<fd, path, pidIn, old>>

\* lock: Truncate(0), WriteString(pid), then Flock(fd, LOCK_SH); the process
\* goes on to run its command.
lockWritePid(p) ==
    /\ lpc[p] = "locked"
    /\ pidIn' = [pidIn EXCEPT ![fd[p]] = p]
    /\ old' = old \ {fd[p]}
    /\ held' = [held EXCEPT ![p] = "sh"]
    /\ lpc' = [lpc EXCEPT ![p] = "running"]
    /\ UNCHANGED <<fd, path>>

\* The lock could not be taken and the holder's PID is not a running googet,
\* or the lockfile is older than lockFileMaxAge: the process truncates the
\* file, writes its PID and goes on.
stealLock(p) ==
    /\ lpc[p] = "opened"
    /\ ~flockGranted(p, fd[p])
    /\ ~isGooGetRunning(pidIn[fd[p]]) \/ fd[p] \in old
    /\ pidIn' = [pidIn EXCEPT ![fd[p]] = p]
    /\ old' = old \ {fd[p]}
    /\ lpc' = [lpc EXCEPT ![p] = "running"]
    /\ UNCHANGED <<fd, held, path>>

\* cleanup: Flock(LOCK_UN), Close, os.Remove(f.Name()): the name is removed
\* whatever file it leads to.  The process ends; a new one may start.
cleanup(p) ==
    /\ lpc[p] = "running"
    /\ held' = [held EXCEPT ![p] = "none"]
    /\ fd' = [fd EXCEPT ![p] = 0]
    /\ path' = 0
    /\ lpc' = [lpc EXCEPT ![p] = "start"]
    /\ UNCHANGED <<pidIn, old>>

\* lockFileMaxAge passes without a write to the lockfile.
lockFileAges ==
    /\ path # 0
    /\ path \notin old
    /\ old' = old \cup {path}
    /\ UNCHANGED <<lpc, fd, held, path, pidIn>>

----------------------------------------------------------------------------
(* The repository, the resolver and the install and remove commands *)

\* InstallableArchs, in the order of preference.
ArchPref == <<"noarch", "x86_64">>

\* The packages the one repository offers (the RepoMap): A in every version
\* for noarch and once for x86_64, which conflicts with another A; B, which
\* depends on A; C, which conflicts with A and with libp; P, which provides
\* libp; R, which replaces A.noarch.  An entry of provides is
\* <<name, version>>, version 0 for a bare name.
RepoMap ==
    {PackageState("A", "noarch", v, {}, {}, {}, FilesOf("A", "noarch")) : v \in Versions}
    \cup {PackageState("A", "x86_64", 1, {}, {"A"}, {}, FilesOf("A", "x86_64")),
          PackageState("B", "noarch", 1, {<<"A", 2>>}, {}, {}, FilesOf("B", "noarch")),
          PackageState("C", "noarch", 1, {}, {"A", "libp"}, {}, FilesOf("C", "noarch")),
          PackageState("P", "noarch", 1, {}, {}, {<<"libp", 0>>}, FilesOf("P", "noarch")),
          Replacing(PackageState("R", "noarch", 1, {}, {}, {}, FilesOf("R", "noarch")),
                    {<<"A", "noarch">>})}

\* goolib.PackageInfo: what PkgNameSplit makes of an argument name[.arch[.ver]];
\* version 0 stands for none given.
PackageInfo(n, a, v) == [name |-> n, arch |-> a, ver |-> v]

\* The arguments given to install; the repository has no package Q.
InstallArgs ==
    {PackageInfo("A", a, 0) : a \in {"", "x86_64"}}
    \cup {PackageInfo("A", "noarch", v) : v \in Versions}
    \cup {PackageInfo(n, "", 0) : n \in {"B", "C", "P", "Q", "R"}}

\* The arguments given to remove: a name, or a name and an arch.
RemoveArgs ==
    {PackageInfo(n, "", 0) : n \in {"A", "B", "C", "P"}}
    \cup {PackageInfo("A", "x86_64", 0)}

\* A command line: install or remove, its argument and its flags.
Command(k, pi, dbOnly, dryRun) ==
    [kind |-> k, pi |-> pi, dbOnly |-> dbOnly, dryRun |-> dryRun]

NoCommand == Command("none", PackageInfo("", "", 0), FALSE, FALSE)

\* latest: the greatest version among the candidates.
latest(cands) == CHOOSE p \in cands : \A q \in cands : p.ver >= q.ver

\* The first arch of ArchPref, from position i on, the repository has name in.
RECURSIVE FirstArch(_, _)
FirstArch(name, i) ==
    IF i > Len(ArchPref) THEN ""
    ELSE IF \E p \in RepoMap : p.name = name /\ p.arch = ArchPref[i] THEN ArchPref[i]
    ELSE FirstArch(name, i + 1)

\* FindRepoLatest(pi, rm, archs): the latest version of pi.name in pi.arch,
\* or with no arch given in the first arch of archs that has the package;
\* EmptyState when the repository has none.
FindRepoLatest(pi) ==
    LET a == IF pi.arch # "" THEN pi.arch ELSE FirstArch(pi.name, 1)
        cands == {p \in RepoMap : p.name = pi.name /\ p.arch = a}
    IN  IF cands = {} THEN EmptyState ELSE latest(cands)

\* WhatRepo / FindRepoSpec: the package of exactly this name, arch and version.
FindRepoSpec(pi) ==
    LET m == {p \in RepoMap : p.name = pi.name /\ p.arch = pi.arch /\ p.ver = pi.ver}
    IN  IF m = {} THEN EmptyState ELSE CHOOSE p \in m : TRUE

\* PackageState.Match(PackageInfo{Name, Arch}): same name, same arch unless pi
\* has none.
Match(ps, pi) == ps.name = pi.name /\ (ps.arch = pi.arch \/ pi.arch = "")

\* client.GooGetState{pkgState}: the state holding what FetchPkg returned; a
\* PackageState without PackageSpec stands for no package.
GooGetState(ps) == IF HasSpec(ps) THEN {ps} ELSE {}

\* NeedsInstallation(pi, state): no package of the state matches pi, or the
\* one that does has a lower version.
NeedsInstallation(pi, st) ==
    \A p \in st : Match(p, pi) => pi.ver > p.ver

\* isSatisfied with every entry of provides read as a bare name.
isSatisfied_anyProvides(pi, st) ==
    \E p \in st :
        \/ p.name = pi.name /\ (pi.arch = "" \/ p.arch = pi.arch) /\ p.ver >= pi.ver
        \/ \E q \in p.provides : q[1] = pi.name

\* isSatisfied(pi, state): a package of the state has the name, the arch
\* unless pi has none, and the version or above; or it provides the name,
\* bare or at the version or above.
isSatisfied(pi, st) ==
    \E p \in st :
        \/ p.name = pi.name /\ (pi.arch = "" \/ p.arch = pi.arch) /\ p.ver >= pi.ver
        \/ \E q \in p.provides : q[1] = pi.name /\ (q[2] = 0 \/ q[2] >= pi.ver)

\* resolveConflicts(ps, state): a name of ps.conflicts is the name of a
\* package of the state or is provided by one.
resolveConflicts(ps, st) ==
    \E c \in ps.conflicts : \E p \in st : p.name = c \/ \E q \in p.provides : q[1] = c

\* resolveReplacements(ps, state): the packages of the state that ps.Replaces
\* names by name and arch are removed from it.
resolveReplacements(ps, st) ==
    {p \in st : <<p.name, p.arch>> \notin ps.replaces}

\* GooGetState.Remove(pi) and Add(ps): the entry of the package's name and
\* arch is replaced by the newly installed one.
StateAdd(st, ps) ==
    {p \in st : ~(p.name = ps.name /\ p.arch = ps.arch)} \cup {ps}

\* The entries of a state in the order they are written.
StateSeq(st) == CHOOSE s \in Orders(st) : TRUE

\* The installed packages that depend on one of the names.
Dependents(rows, names) ==
    {r \in rows : \E d \in r.deps : d[1] \in names}

\* remove.EnumerateDeps: the package and every installed package that depends
\* on it, directly or through others (by name).
RECURSIVE Closure(_, _)
Closure(rows, S) ==
    LET T == S \cup Dependents(rows, {r.name : r \in S})
    IN  IF T = S THEN S ELSE Closure(rows, T)

\* The order of removal turned round: a package goes after the packages it
\* depends on.
RECURSIVE LeavesFirst_rootFirst(_)
LeavesFirst_rootFirst(S) ==
    IF S = {} THEN <<>>
    ELSE LET leaf == CHOOSE r \in S : Dependents(S \ {r}, {r.name}) = {}
         IN  LeavesFirst_rootFirst(S \ {leaf}) \o <<leaf>>

\* The order of removal: a package goes before the packages it depends on.
RECURSIVE LeavesFirst(_)
LeavesFirst(S) ==
    IF S = {} THEN <<>>
    ELSE LET leaf == CHOOSE r \in S : Dependents(S \ {r}, {r.name}) = {}
         IN  <<leaf>> \o LeavesFirst(S \ {leaf})

\* No command run yet.
CmdIdle ==
    /\ pc = "idle"
    /\ cmd = NoCommand
    /\ root = EmptyState
    /\ state = {}
    /\ frames = <<>>
    /\ todo = <<>>
    /\ did = {}
    /\ res = "none"

\* No function called.
NoCall == [op |-> "none"]

CallIdle ==
    /\ args = NoCall
    /\ ret = NoCall

----------------------------------------------------------------------------
(* SpecDB: the store operations on their own *)

\* lastOp: the operation, its arguments, whether it returned an error and, for
\* a write, the entries it committed and the rows of their keys it found.
Op(o, n, a, e, w, r) ==
    [op |-> o, name |-> n, arch |-> a, err |-> e, written |-> w, replaced |-> r]

NoOp == Op("none", "", "", FALSE, {}, {})

InitDB ==
    /\ db = createDB
    /\ lastOp = NoOp
    /\ fetched = EmptyState
    /\ LockIdle
    /\ CmdIdle
    /\ CallIdle

WriteStateToDB(b, fail) ==
    /\ db' = WriteStateRows(db, b, fail)
    /\ LET done == IF fail = 0 THEN Len(b) ELSE fail - 1
           w == LastOfKey(b, done)
       IN  lastOp' = Op("write", "", "", fail # 0, w,
                {r \in db : \E x \in w : x.name = r.name /\ x.arch = r.arch /\ x # r})
    /\ fetched' = EmptyState
    /\ UNCHANGED <<lockVars, cmdVars, callVars>>

RemovePkg(name, arch) ==
    /\ db' = RemoveRows(db, name, arch)
    /\ lastOp' = Op("remove", name, arch, FALSE, {}, {})
    /\ fetched' = EmptyState
    /\ UNCHANGED <<lockVars, cmdVars, callVars>>

FetchPkgCall(name) ==
    /\ \E ps \in FetchPkg(db, name) : fetched' = ps
    /\ lastOp' = Op("fetch", name, "", FALSE, {}, {})
    /\ db' = db
    /\ UNCHANGED <<lockVars, cmdVars, callVars>>

FetchPkgsCall ==
    /\ \E t \in FetchPkgs(db) : fetched' = t
    /\ lastOp' = Op("fetchall", "", "", FALSE, {}, {})
    /\ db' = db
    /\ UNCHANGED <<lockVars, cmdVars, callVars>>

DoWrite == \E b \in Batches : \E fail \in 0..Len(b) : WriteStateToDB(b, fail)

DoRemove == \E n \in DBNames, a \in Archs : RemovePkg(n, a)

DoFetch == \E n \in DBNames : FetchPkgCall(n)

NextDB == DoWrite \/ DoRemove \/ DoFetch \/ FetchPkgsCall

SpecDB == InitDB /\ [][NextDB]_vars

----------------------------------------------------------------------------
(* The claims about the state store, checked under SpecDB *)

SameKey(r, q) == r.name = q.name /\ r.arch = q.arch

\* C1: after any sequence of WriteStateToDB and RemovePkg calls the store holds
\* at most one row per (name, arch), and a write of a package whose
\* (name, arch) is stored replaces that row, whatever the two versions are: the
\* entry written is in the store and the row it found is not.
C1_UniqueRows ==
    /\ \A r, q \in db : SameKey(r, q) => r = q
    /\ lastOp.op = "write" =>
        /\ lastOp.written \subseteq db
        /\ lastOp.replaced \cap db = {}

\* C1's case: a write has just replaced a stored row by one of a lower version.
C1_Witness ==
    /\ lastOp.op = "write"
    /\ \E w \in lastOp.written, r \in lastOp.replaced : SameKey(w, r) /\ w.ver < r.ver
    /\ Cardinality(db) > 1

\* C8: WriteStateToDB is all-or-nothing: a call that returns an error leaves
\* the store as it was before the call.
C8_AllOrNothing ==
    [][(lastOp'.op = "write" /\ lastOp'.err) => db' = db]_vars

\* C9: FetchPkg(name) returns the empty PackageState when no row has the name,
\* the stored state when one row has it, and with rows of several archs the
\* state of a row of the greatest version, as it was stored.
C9_FetchPkg ==
    lastOp.op = "fetch" =>
        LET match == {r \in db : r.name = lastOp.name}
        IN  IF match = {} THEN fetched = EmptyState
            ELSE fetched \in {r \in match : \A q \in match : r.ver >= q.ver}

\* C10: RemovePkg(name, "") deletes every row of that name, RemovePkg(name,
\* arch) with an arch deletes the row of that name and arch only, all other
\* rows stay, no error is returned and repeating the call changes nothing.
C10_RemovePkg ==
    [][lastOp'.op = "remove" =>
        /\ db' = {r \in db : ~(r.name = lastOp'.name
                               /\ (lastOp'.arch = "" \/ r.arch = lastOp'.arch))}
        /\ ~lastOp'.err
        /\ (lastOp = lastOp' => db' = db)]_vars

\* The names and archs of the model in lexicographic order.
Lex == <<"", "A", "B", "C", "P", "Q", "R", "foo", "libp", "noarch", "rollback", "stable", "x86_64">>

Rank(str) == CHOOSE i \in 1..Len(Lex) : Lex[i] = str

\* (name, arch) of r comes before (name, arch) of q.
KeyBefore(r, q) ==
    \/ Rank(r.name) < Rank(q.name)
    \/ r.name = q.name /\ Rank(r.arch) < Rank(q.arch)

\* C11: FetchPkgs returns one entry per stored row, each equal to the stored
\* state, in (name, arch) order; a name stored under two archs yields the two
\* stored states, not one state twice.
C11_FetchPkgs ==
    lastOp.op = "fetchall" =>
        /\ Len(fetched) = Cardinality(db)
        /\ \A i \in 1..Len(fetched) : fetched[i] \in db
        /\ \A i, j \in 1..Len(fetched) : i < j => KeyBefore(fetched[i], fetched[j])

----------------------------------------------------------------------------
(* SpecLock: engine processes competing for the lockfile *)

InitLock ==
    /\ db = createDB
    /\ lastOp = NoOp
    /\ fetched = EmptyState
    /\ LockIdle
    /\ CmdIdle
    /\ CallIdle

NextLock ==
    \/ \E p \in Procs : OpenLockFile(p) /\ UNCHANGED <<dbVars, cmdVars, callVars>>
    \/ \E p \in Procs : lockExclusive(p) /\ UNCHANGED <<dbVars, cmdVars, callVars>>
    \/ \E p \in Procs : lockWritePid(p) /\ UNCHANGED <<dbVars, cmdVars, callVars>>
    \/ \E p \in Procs : stealLock(p) /\ UNCHANGED <<dbVars, cmdVars, callVars>>
    \/ \E p \in Procs : cleanup(p) /\ UNCHANGED <<dbVars, cmdVars, callVars>>
    \/ lockFileAges /\ UNCHANGED <<dbVars, cmdVars, callVars>>

SpecLock == InitLock /\ [][NextLock]_vars

\* C2: at any time at most one engine process holds the lockfile and runs its
\* state-mutating command.
C2_MutualExclusion ==
    Cardinality({p \in Procs : lpc[p] = "running"}) <= 1

----------------------------------------------------------------------------
(* Spec: the install and remove commands of one engine process *)

Init ==
    /\ db = createDB
    /\ lastOp = NoOp
    /\ fetched = EmptyState
    /\ LockIdle
    /\ CmdIdle
    /\ CallIdle

\* The command returns: its result stays, what it held in memory is gone.
Return(r) ==
    /\ res' = r
    /\ pc' = "idle"
    /\ root' = EmptyState
    /\ state' = {}
    /\ frames' = <<>>
    /\ todo' = <<>>
    /\ did' = {}

\* An event of the package at the top of frames.
Event(e) == <<e, Head(frames).name, Head(frames).arch, Head(frames).ver>>

\* The rows installFromRepo leaves in the store after FromRepo returned:
\* nothing is written on an error, the whole state otherwise.
AfterFromRepo(rows, st, err) ==
    IF err THEN rows ELSE WriteStateRows(rows, StateSeq(st), 0)

\* installFromRepo up to the call of install.FromRepo: FetchPkg by name, the
\* version and arch from FindRepoLatest when the argument names no version,
\* WhatRepo, NeedsInstallation against the state holding the fetched package;
\* with -dry_run the plan is printed and nothing more is done.
installFromRepo(pi, dbOnly, dryRun) ==
    /\ pc = "idle"
    /\ cmd' = Command("install", pi, dbOnly, dryRun)
    /\ \E pkgState \in FetchPkg(db, pi.name) :
        LET rs == IF pi.ver = 0 THEN FindRepoLatest(pi) ELSE FindRepoSpec(pi)
            st == GooGetState(pkgState)
        IN  IF ~HasSpec(rs) THEN Return("notfound")
            ELSE IF ~NeedsInstallation(PackageInfo(rs.name, rs.arch, rs.ver), st)
                 THEN Return("already")
            ELSE IF dryRun THEN Return("dryrun")
            ELSE /\ root' = rs
                 /\ state' = st
                 /\ frames' = <<rs>>
                 /\ pc' = "conflicts"
                 /\ res' = "running"
                 /\ UNCHANGED <<todo, did>>
    /\ UNCHANGED <<db, lastOp, fetched, lockVars>>

\* FromRepo / installDeps: the conflicts of the package are resolved against
\* the state before anything else is done for it.
ResolveConflicts ==
    /\ pc = "conflicts"
    /\ IF resolveConflicts(Head(frames), state)
       THEN /\ Return("conflict")
            /\ db' = AfterFromRepo(db, state, TRUE)
       ELSE /\ pc' = "deps"
            /\ UNCHANGED <<res, db, root, state, frames, todo, did>>
    /\ UNCHANGED <<cmd, lastOp, fetched, lockVars>>

\* installDeps finds every dependency satisfied.
missingDeps_none(ps, st) == {}

\* installDeps: the dependencies of ps the state does not satisfy.
missingDeps(ps, st) ==
    {d \in ps.deps : ~isSatisfied(PackageInfo(d[1], "", d[2]), st)}

\* installDeps: a dependency the state does not satisfy is installed first,
\* at its latest version; with none left the package itself is downloaded.
InstallDeps ==
    /\ pc = "deps"
    /\ LET missing == missingDeps(Head(frames), state)
       IN  IF missing = {}
           THEN /\ pc' = "download"
                /\ UNCHANGED <<frames, res, db, root, state, todo, did>>
           ELSE \E d \in missing :
                LET rs == FindRepoLatest(PackageInfo(d[1], "", 0))
                IN  IF HasSpec(rs) /\ rs.ver >= d[2]
                    THEN /\ frames' = <<rs>> \o frames
                         /\ pc' = "conflicts"
                         /\ UNCHANGED <<res, db, root, state, todo, did>>
                    ELSE /\ Return("notfound")
                         /\ db' = AfterFromRepo(db, state, TRUE)
    /\ UNCHANGED <<cmd, lastOp, fetched, lockVars>>

\* The package is installed in the state, what it replaces is removed from the
\* state, and FromRepo returns: to the caller's installDeps, or to
\* installFromRepo, which writes the state.
Installed ==
    /\ state' = resolveReplacements(Head(frames), StateAdd(state, Head(frames)))
    /\ frames' = Tail(frames)
    /\ pc' = IF Len(frames) = 1 THEN "write" ELSE "deps"

\* download.FromRepo: the archive is downloaded and its checksum verified.
Download ==
    /\ pc = "download"
    /\ did' = did \cup {Event("download")}
    /\ pc' = "extract"
    /\ UNCHANGED <<cmd, root, state, frames, todo, res, dbVars, lockVars>>

\* -db_only skips the install script whatever the flag is.
skipScript_always(c) == TRUE

\* -db_only: only make changes to DB, don't perform install system actions.
skipScript(c) == c.dbOnly

\* installPkg: the archive is extracted and its files are copied; with
\* -db_only the install script is not run.
Extract ==
    /\ pc = "extract"
    /\ did' = did \cup {Event("extract")}
    /\ IF skipScript(cmd) THEN Installed
       ELSE pc' = "script" /\ UNCHANGED <<state, frames>>
    /\ UNCHANGED <<cmd, root, todo, res, dbVars, lockVars>>

\* system.Install: the install script exits with an accepted code.
RunScript ==
    /\ pc = "script"
    /\ did' = did \cup {Event("script")}
    /\ Installed
    /\ UNCHANGED <<cmd, root, todo, res, dbVars, lockVars>>

\* The download, the extraction or the install script fails: FromRepo returns
\* the error and installFromRepo returns it.
StepFails ==
    /\ pc \in {"download", "extract", "script"}
    /\ Return("failed")
    /\ db' = AfterFromRepo(db, state, TRUE)
    /\ UNCHANGED <<cmd, lastOp, fetched, lockVars>>

\* The context is cancelled while FromRepo downloads, extracts or runs a
\* script: it returns the context's error.
Cancel ==
    /\ pc \in {"download", "extract", "script"}
    /\ Return("cancelled")
    /\ db' = AfterFromRepo(db, state, TRUE)
    /\ UNCHANGED <<cmd, lastOp, fetched, lockVars>>

\* installFromRepo after FromRepo returned nil: WriteStateToDB(state).
WriteState ==
    /\ pc = "write"
    /\ db' = AfterFromRepo(db, state, FALSE)
    /\ Return("ok")
    /\ UNCHANGED <<cmd, lastOp, fetched, lockVars>>

\* installFromRepo with -reinstall: FetchPkg by name; install.Reinstall of
\* what was fetched, which returns an error or nil; then
\* WriteStateToDB(GooGetState{pkgState}), whose addPkg dereferences the
\* PackageSpec of the entry, nil when no row was fetched.
reinstallFromRepo(pi) ==
    /\ pc = "idle"
    /\ cmd' = Command("reinstall", pi, FALSE, FALSE)
    /\ \E pkgState \in FetchPkg(db, pi.name) : \E reinstalled \in BOOLEAN :
        IF ~reinstalled THEN Return("failed") /\ db' = db
        ELSE IF ~HasSpec(pkgState) THEN Return("panic") /\ db' = db
        ELSE Return("ok") /\ db' = WriteStateRows(db, <<pkgState>>, 0)
    /\ UNCHANGED <<lastOp, fetched, lockVars>>

\* removeOne goes on to remove.All whatever the flag is.
removeDryRun_ignored(c) == FALSE

\* if cmd.dryRun: removeOne prints what would be removed and returns.
removeDryRun(c) == c.dryRun

\* removeOne: PkgNameSplit of the argument, FetchPkg by its name; a package
\* that is not installed is reported and nothing is done; EnumerateDeps of the
\* fetched package's name and arch; with -dry_run the list is printed;
\* otherwise remove.All is started.
removeOne(pi, dbOnly, dryRun) ==
    /\ pc = "idle"
    /\ cmd' = Command("remove", pi, dbOnly, dryRun)
    /\ \E ps \in FetchPkg(db, pi.name) :
        LET deps == Closure(db, {r \in db : r.name = ps.name /\ r.arch = ps.arch})
        IN  IF ~HasSpec(ps) THEN Return("notinstalled")
            ELSE IF removeDryRun(cmd') THEN Return("dryrun")
            ELSE /\ todo' = LeavesFirst(deps)
                 /\ pc' = "remove"
                 /\ res' = "running"
                 /\ UNCHANGED <<root, state, frames, did>>
    /\ UNCHANGED <<db, lastOp, fetched, lockVars>>

\* remove.All, one package: the uninstall script runs and the files are
\* deleted unless -db_only is given, then RemovePkg(name, arch).
RemoveStep ==
    /\ pc = "remove"
    /\ todo # <<>>
    /\ db' = RemoveRows(db, Head(todo).name, Head(todo).arch)
    /\ IF Len(todo) = 1 THEN Return("ok")
       ELSE /\ todo' = Tail(todo)
            /\ UNCHANGED <<pc, res, root, state, frames, did>>
    /\ UNCHANGED <<cmd, lastOp, fetched, lockVars>>

\* The row of the package whose uninstall script failed is deleted all the same.
UninstallFails_rowRemoved ==
    /\ pc = "remove"
    /\ todo # <<>>
    /\ ~cmd.dbOnly
    /\ Return("failed")
    /\ db' = RemoveRows(db, Head(todo).name, Head(todo).arch)
    /\ UNCHANGED <<cmd, lastOp, fetched, lockVars>>

\* remove.All: an uninstall script fails and the rest is given up; what was
\* removed stays removed.
UninstallFails ==
    /\ pc = "remove"
    /\ todo # <<>>
    /\ ~cmd.dbOnly
    /\ Return("failed")
    /\ UNCHANGED <<cmd, dbVars, lockVars>>

\* The flags a command is run with: none, -db_only or -dry_run.
Flags == {<<FALSE, FALSE>>, <<TRUE, FALSE>>, <<FALSE, TRUE>>}

Next ==
    \/ UNCHANGED callVars
       /\ \E pi \in InstallArgs, f \in Flags : installFromRepo(pi, f[1], f[2])
    \/ UNCHANGED callVars /\ ResolveConflicts
    \/ UNCHANGED callVars /\ InstallDeps
    \/ UNCHANGED callVars /\ Download
    \/ UNCHANGED callVars /\ Extract
    \/ UNCHANGED callVars /\ RunScript
    \/ UNCHANGED callVars /\ StepFails
    \/ UNCHANGED callVars /\ Cancel
    \/ UNCHANGED callVars /\ WriteState
    \/ UNCHANGED callVars
       /\ \E n \in {"B", "Q"} : reinstallFromRepo(PackageInfo(n, "", 0))
    \/ UNCHANGED callVars
       /\ \E pi \in RemoveArgs, f \in Flags : removeOne(pi, f[1], f[2])
    \/ UNCHANGED callVars /\ RemoveStep
    \/ UNCHANGED callVars /\ UninstallFails

Spec == Init /\ [][Next]_vars

----------------------------------------------------------------------------
(* The claims about the install and remove commands, checked under Spec *)

\* C3: when install X (without -reinstall) has succeeded and the same command
\* is run again, the second run installs nothing, leaves the store unchanged
\* and reports that X or a newer version is already installed.
C3_SecondInstallIsNoop ==
    [][(/\ pc = "idle"
        /\ cmd.kind = "install"
        /\ ~cmd.dryRun
        /\ res \in {"ok", "already"}
        /\ cmd' = cmd)
       => (pc' = "idle" /\ res' = "already" /\ db' = db)]_vars

\* C4: when an install that resolved to X at version v returns success, the
\* row stored for X has a version of at least v and of at least the version
\* stored for X before, and no row of the store has a lower version than
\* before.
C4_NeverLowers ==
    [][(cmd.kind = "install" /\ pc = "write" /\ res' = "ok")
       => (/\ \E r \in db' :
                /\ r.name = root.name /\ r.arch = root.arch
                /\ r.ver >= root.ver
                /\ \A q \in db : SameKey(q, r) => r.ver >= q.ver
           /\ \A q \in db : \E r \in db' : SameKey(q, r) /\ r.ver >= q.ver)]_vars

\* C5: when the conflicts of the package about to be installed name a package
\* of the store, or a name a package of the store provides, the install ends
\* with the conflict error, and nothing of that package was downloaded,
\* extracted or run and the store is as it was.
C5_ConflictStopsInstall ==
    [][(/\ pc = "conflicts"
        /\ \E c \in Head(frames).conflicts :
              \E p \in db : p.name = c \/ \E q \in p.provides : q[1] = c)
       => (/\ pc' = "idle"
           /\ res' = "conflict"
           /\ db' = db
           /\ \A e \in did : <<e[2], e[3], e[4]>> #
                  <<Head(frames).name, Head(frames).arch, Head(frames).ver>>)]_vars

C7_RowAfterScript ==
    [][cmd.kind = "install"
       => (/\ \A r \in db' \ db :
                (\A q \in db : ~(SameKey(q, r) /\ q.ver = r.ver))
                => {<<"extract", r.name, r.arch, r.ver>>,
                    <<"script", r.name, r.arch, r.ver>>} \subseteq did
           /\ (pc # "idle" /\ res' \in {"failed", "cancelled"})
                => \A r \in db' \ db : ~SameKey(r, Head(frames)))]_vars

\* C7 as amended: without -db_only, a row of a package version the store did
\* not hold is written by install only after that package's archive was
\* extracted and its install script exited with an accepted code; when a step
\* fails or the command is cancelled, with or without -db_only, no row of the
\* package being installed is written.
C7_RowAfterScriptUnlessDbOnly ==
    [][cmd.kind = "install"
       => (/\ ~cmd.dbOnly =>
                \A r \in db' \ db :
                    (\A q \in db : ~(SameKey(q, r) /\ q.ver = r.ver))
                    => {<<"extract", r.name, r.arch, r.ver>>,
                        <<"script", r.name, r.arch, r.ver>>} \subseteq did
           /\ (pc # "idle" /\ res' \in {"failed", "cancelled"})
                => \A r \in db' \ db : ~SameKey(r, Head(frames)))]_vars

\* An install without -db_only has returned success and the store holds the
\* package.
C7_Witness ==
    /\ pc = "idle"
    /\ cmd.kind = "install" /\ ~cmd.dbOnly /\ ~cmd.dryRun
    /\ res = "ok"
    /\ \E r \in db : r.name = cmd.pi.name



Replaced(rows, ps) == {r \in rows : <<r.name, r.arch>> \in ps.replaces}

\* C17: an install that succeeds for a package whose replaces list names an
\* installed package by name and arch, whatever its version, leaves no row of
\* that package in the store; a row is removed by install only when the row
\* of a package replacing it is already in the store; and an install that
\* fails leaves the replaced package's row where it was.
C17_ReplacedRemoved ==
    [][cmd.kind = "install" =>
        /\ (pc = "write" /\ res' = "ok") => Replaced(db', root) = {}
        /\ \A r \in db :
              (\A q \in db' : ~SameKey(q, r))
              => \E p \in db : <<r.name, r.arch>> \in p.replaces
        /\ res' \in {"failed", "cancelled", "conflict", "notfound"}
              => Replaced(db, root) \subseteq db']_vars

\* C19: an install of a package that replaces an installed package on which
\* another installed package depends ends with the replaced package and its
\* dependents removed: with A and a dependent of A installed, install R ends
\* with a store holding exactly R.
C19_ReplacedAndDependentsRemoved ==
    [][(/\ cmd.kind = "install" /\ pc = "write" /\ res' = "ok"
        /\ Replaced(db, root) # {}
        /\ Dependents(db, {r.name : r \in Replaced(db, root)}) # {})
       => db' = (db \ Closure(db, Replaced(db, root))) \cup {root}]_vars


\* The packages of a list.
Range(s) == {s[i] : i \in 1..Len(s)}

\* C20: remove X removes from the store exactly X and every installed package
\* that depends on X, directly or through others; everything else stays.  X
\* is an installed package of the argument's name, and of its arch when the
\* argument gives one; with no such package nothing is removed.  The removal
\* takes the packages of that set out of the store one by one and ends with
\* success when all are out.
C20_RemoveClosure ==
    [][cmd'.kind = "remove" =>
        /\ (pc = "idle" /\ pc' = "remove")
              => \E x \in db :
                    /\ Match(x, cmd'.pi)
                    /\ Range(todo') = Closure(db, {x})
                    /\ Len(todo') = Cardinality(Closure(db, {x}))
        /\ (pc = "idle" /\ ~\E x \in db : Match(x, cmd'.pi))
              => (pc' = "idle" /\ db' = db)
        /\ (pc = "remove" /\ res' # "failed")
              => /\ Head(todo) \in db
                 /\ db' = db \ {Head(todo)}
                 /\ (res' = "ok") = (Len(todo) = 1)]_vars

\* C21: when an uninstall script fails during a remove without -db_only the
\* removal stops there and the command reports the failure: the packages
\* removed before stay out of the store, the failing package and the ones
\* not yet processed stay in it.
C21_UninstallFailureStops ==
    [][(cmd.kind = "remove" /\ pc = "remove") =>
        /\ db' \subseteq db
        /\ res' = "failed" =>
              /\ ~cmd.dbOnly
              /\ pc' = "idle" /\ todo' = <<>>
              /\ Range(todo) \subseteq db'
              /\ db' = db]_vars

\* remove A has failed at the uninstall script of A after the package that
\* depends on A was removed: A is in the store, its dependent is not.
C21_Witness ==
    /\ pc = "idle"
    /\ cmd.kind = "remove" /\ cmd.pi.name = "A" /\ ~cmd.dbOnly
    /\ res = "failed"
    /\ \E r \in db : r.name = "A"
    /\ \A r \in db : \A d \in r.deps : d[1] # "A"

\* C24: remove of a package that is not installed (no row of the store has
\* the name of the argument) returns no error and leaves the store as it
\* was.
C24_RemoveNotInstalled ==
    [][(/\ cmd'.kind = "remove"
        /\ pc = "idle"
        /\ \A r \in db : r.name # cmd'.pi.name)
       => (pc' = "idle" /\ res' = "notinstalled" /\ db' = db)]_vars

\* remove of a package that is not installed has returned while other
\* packages are installed.
C24_Witness ==
    /\ pc = "idle"
    /\ cmd.kind = "remove"
    /\ res = "notinstalled"
    /\ db # {}
    /\ \A r \in db : r.name # cmd.pi.name

C25_ReinstallNotInstalled ==
    [][(/\ cmd'.kind = "reinstall"
        /\ pc = "idle"
        /\ \A r \in db : r.name # cmd'.pi.name)
       => (/\ pc' = "idle"
           /\ res' \notin {"failed", "panic"}
           /\ db' = db)]_vars

\* C31: a dependency that an installed package already satisfies, by its
\* name and version or through provides, is skipped by the install: it is
\* not looked up in the repository, not downloaded and not installed again,
\* and its row stays as it is.
C31_SatisfiedDepSkipped ==
    [][(cmd.kind = "install" /\ pc = "deps" /\ Len(frames') > Len(frames))
       => \A d \in Head(frames).deps :
            d[1] = Head(frames').name
                => ~isSatisfied(PackageInfo(d[1], "", d[2]), db)]_vars

\* C37: every package whose install step succeeded during an install (its
\* files were extracted and its install script ran) has a row in the store
\* when the command ends, also when a later step of the same plan fails.
C37_InstalledHasRow ==
    [][(cmd.kind = "install" /\ pc # "idle" /\ pc' = "idle")
       => \A p \in state :
            <<"script", p.name, p.arch, p.ver>> \in did
                => \E r \in db' : r.name = p.name /\ r.arch = p.arch /\ r.ver = p.ver]_vars

\* C38: remove with an argument that names an arch or a version never
\* removes an installed package of the argument's name whose arch or version
\* is another one.
C38_RemoveOnlyNamedArch ==
    [][(cmd.kind = "remove" /\ pc = "remove" /\ db' # db
        /\ Head(todo).name = cmd.pi.name)
       => /\ cmd.pi.arch \in {"", Head(todo).arch}
          /\ cmd.pi.ver \in {0, Head(todo).ver}]_vars

----------------------------------------------------------------------------
(* SpecOpen: opening the store beside a legacy state file *)

\* InstallDate values are 1..MaxDate; the clock may be one later.
MaxDate == 2

Dates == 1..MaxDate

\* The packages of the state file and of the database file.
ImportPkgs ==
    {PackageState("A", "", 1, {}, {}, {}, FilesOf("A", "")),
     PackageState("B", "noarch", 1, {}, {}, {}, FilesOf("B", "noarch"))}

\* A GooGetState whose entries carry their InstallDate: <<PackageState, date>>,
\* one entry per package; the empty one stands for no state file.
DatedStates ==
    UNION {{{<<p, f[p]>> : p \in S} : f \in [S -> Dates]} : S \in SUBSET ImportPkgs}

\* addPkg with the InstallDate kept in view: the date of the row is the time
\* of the call, whatever the entry carried.
addPkgAt(rows, e, now) ==
    {r \in rows : ~(r[1].name = e[1].name /\ r[1].arch = e[1].arch)} \cup {<<e[1], now>>}

\* WriteStateToDB of a dated state, entry by entry.
RECURSIVE WriteDated(_, _, _)
WriteDated(rows, st, now) ==
    IF st = {} THEN rows
    ELSE LET e == CHOOSE x \in st : TRUE
         IN  WriteDated(addPkgAt(rows, e, now), st \ {e}, now)

\* NewDB(dbFile): a database file that does not exist is created with an empty
\* table, one that exists is opened as it is.
NewDB(dbFile) == IF dbFile.exists THEN dbFile.rows ELSE createDB

\* CreateIfMissing(dbFile): nothing is done when the database file exists;
\* otherwise it is created and the state file is written to it.
CreateIfMissing(dbFile, stateFile, now) ==
    IF dbFile.exists THEN dbFile
    ELSE [exists |-> TRUE, rows |-> WriteDated(NewDB(dbFile), stateFile, now)]

\* The files found when the store is opened and the time it is opened at,
\* which no recorded InstallDate is later than.
OpenArgs ==
    {a \in [op : {"open"},
            dbFile : {[exists |-> FALSE, rows |-> {}]}
                     \cup {[exists |-> TRUE, rows |-> r] : r \in DatedStates},
            stateFile : DatedStates,
            now : 1..(MaxDate + 1)] :
        \A e \in a.dbFile.rows \cup a.stateFile : e[2] <= a.now}

InitOpen ==
    /\ db = createDB
    /\ lastOp = NoOp
    /\ fetched = EmptyState
    /\ LockIdle
    /\ CmdIdle
    /\ args \in OpenArgs
    /\ ret = NoCall

\* The store is opened: CreateIfMissing(dbFile), then NewDB(dbFile).
OpenStore ==
    /\ ret = NoCall
    /\ ret' = [op |-> "open",
               rows |-> NewDB(CreateIfMissing(args.dbFile, args.stateFile, args.now))]
    /\ UNCHANGED <<args, dbVars, lockVars, cmdVars>>

NextOpen == OpenStore

SpecOpen == InitOpen /\ [][NextOpen]_vars

\* C12: opening the store imports the legacy state file exactly when the
\* database file does not exist, every imported package with the InstallDate
\* the state file recorded; when the database file exists the state file is
\* ignored and the rows are as they were; with neither file the store is empty.
C12_ImportKeepsInstallDate ==
    ret.op = "open" =>
        IF args.dbFile.exists THEN ret.rows = args.dbFile.rows
        ELSE ret.rows = args.stateFile

----------------------------------------------------------------------------
(* SpecLatest: FindRepoLatest over several repositories *)

\* The URLs of the repositories and the priorities they are given.
RepoURLs == {"rollback", "stable"}

Priorities == {500, 1500}

\* The RepoSpecs a repository may list.
RepoPkgs ==
    {PackageInfo("foo", "x86_64", v) : v \in Versions}
    \cup {PackageInfo("foo", "noarch", 1)}

\* A RepoMap: for every URL the priority of the repository and its packages.
RepoMaps ==
    [RepoURLs -> [priority : Priorities, packages : SUBSET RepoPkgs]]

\* psm of FindRepoLatest: for every repository that lists name in arch a, the
\* versions it lists.
psmOf(name, a, rm) ==
    LET vs(r) == {p.ver : p \in {q \in rm[r].packages : q.name = name /\ q.arch = a}}
    IN  [r \in {r \in DOMAIN rm : vs(r) # {}} |-> vs(r)]

Max(S) == CHOOSE v \in S : \A w \in S : v >= w

\* latest(psm) over the repositories in the order s[1..k] the range over the
\* map yields them: the first version seen is taken, then every version that
\* compares greater, with its repository.
RECURSIVE latestFold(_, _, _)
latestFold(psm, s, k) ==
    IF k = 0 THEN [ver |-> 0, repo |-> ""]
    ELSE LET acc == latestFold(psm, s, k - 1)
         IN  IF acc.ver = 0 \/ Max(psm[s[k]]) > acc.ver
             THEN [ver |-> Max(psm[s[k]]), repo |-> s[k]]
             ELSE acc

\* latest(psm): the order of a range over a map is not fixed; the set of the
\* results the call may return.
latestAny(psm) ==
    {latestFold(psm, s, Cardinality(DOMAIN psm)) : s \in Orders(DOMAIN psm)}

\* The error return of FindRepoLatest.
NotFound == <<0, "", "">>

\* FindRepoLatest with no arch given answers from the last of the archs a
\* repository has the package in.
RECURSIVE FindInArchs_lastArch(_, _, _, _)
FindInArchs_lastArch(name, rm, archs, i) ==
    IF i > Len(archs) THEN {NotFound}
    ELSE LET psm == psmOf(name, archs[i], rm)
             rest == FindInArchs_lastArch(name, rm, archs, i + 1)
         IN  IF rest # {NotFound} \/ DOMAIN psm = {} THEN rest
             ELSE {<<l.ver, l.repo, archs[i]>> : l \in latestAny(psm)}

\* FindRepoLatest with no arch given: the archs in order from position i, the
\* first one a repository has the package in.
RECURSIVE FindInArchs(_, _, _, _)
FindInArchs(name, rm, archs, i) ==
    IF i > Len(archs) THEN {NotFound}
    ELSE LET psm == psmOf(name, archs[i], rm)
         IN  IF DOMAIN psm # {}
             THEN {<<l.ver, l.repo, archs[i]>> : l \in latestAny(psm)}
             ELSE FindInArchs(name, rm, archs, i + 1)

\* FindRepoLatest(pi, rm, archs): the set of the (ver, repo, arch) the call may
\* return.
FindRepoLatestIn(pi, rm, archs) ==
    IF pi.arch # ""
    THEN LET psm == psmOf(pi.name, pi.arch, rm)
         IN  IF DOMAIN psm # {}
             THEN {<<l.ver, l.repo, pi.arch>> : l \in latestAny(psm)}
             ELSE {NotFound}
    ELSE FindInArchs(pi.name, rm, archs, 1)

LatestArgs ==
    [op : {"latest"},
     pi : {PackageInfo("foo", a, 0) : a \in {"", "noarch", "x86_64"}},
     rm : RepoMaps]

InitLatest ==
    /\ db = createDB
    /\ lastOp = NoOp
    /\ fetched = EmptyState
    /\ LockIdle
    /\ CmdIdle
    /\ args \in LatestArgs
    /\ ret = NoCall

\* FindRepoLatest is called twice with the same arguments.
FindRepoLatestCall ==
    /\ ret = NoCall
    /\ \E x, y \in FindRepoLatestIn(args.pi, args.rm, ArchPref) :
            ret' = [op |-> "latest", first |-> x, second |-> y]
    /\ UNCHANGED <<args, dbVars, lockVars, cmdVars>>

NextLatest == FindRepoLatestCall

SpecLatest == InitLatest /\ [][NextLatest]_vars

\* The arch the selection is made in: the one given, or the first of the
\* preferred archs a repository has the package in ("" when none has).
RECURSIVE ArchOf(_, _, _)
ArchOf(pi, rm, i) ==
    IF pi.arch # "" THEN pi.arch
    ELSE IF i > Len(ArchPref) THEN ""
    ELSE IF DOMAIN psmOf(pi.name, ArchPref[i], rm) # {} THEN ArchPref[i]
    ELSE ArchOf(pi, rm, i + 1)

\* The repositories of the highest priority among those holding the package.
TopRepos(psm, rm) ==
    {r \in DOMAIN psm : \A q \in DOMAIN psm : rm[r].priority >= rm[q].priority}

\* The highest version the repositories of the highest priority hold.
TopVersion(psm, rm) == Max(UNION {psm[r] : r \in TopRepos(psm, rm)})

\* C13: the latest-version selection returns the highest version held by the
\* repositories of the highest priority that hold the package, from such a
\* repository, even when a repository of lower priority holds a higher
\* version.
C13_PriorityThenVersion ==
    ret.op = "latest" =>
        LET psm == psmOf(args.pi.name, ArchOf(args.pi, args.rm, 1), args.rm)
        IN  IF DOMAIN psm = {} THEN ret.first = NotFound
            ELSE /\ ret.first[1] = TopVersion(psm, args.rm)
                 /\ ret.first[2] \in TopRepos(psm, args.rm)
                 /\ ret.first[1] \in psm[ret.first[2]]

\* C14: the latest-version selection is deterministic: two calls with the
\* same RepoMap and archs return the same (version, repo, arch), and among
\* repositories of the same priority holding the version the one with the
\* lexicographically least URL is returned.
C14_Deterministic ==
    ret.op = "latest" =>
        /\ ret.first = ret.second
        /\ LET psm == psmOf(args.pi.name, ArchOf(args.pi, args.rm, 1), args.rm)
           IN  \A r \in DOMAIN psm :
                   (/\ ret.first[2] \in DOMAIN psm
                    /\ args.rm[r].priority = args.rm[ret.first[2]].priority
                    /\ ret.first[1] \in psm[r])
                   => Rank(ret.first[2]) <= Rank(r)


\* C32: with no arch requested the latest-version selection answers from the
\* first arch, in the order of preference, that any repository has the
\* package in, even when a later arch holds a higher version; with an arch
\* requested only that arch is considered; with no candidate the not-found
\* error is returned.
C32_FirstArchWins ==
    ret.op = "latest" =>
        LET cand(a) == {r \in RepoURLs : \E p \in args.rm[r].packages :
                            p.name = args.pi.name /\ p.arch = a}
            first == {i \in 1..Len(ArchPref) :
                        /\ cand(ArchPref[i]) # {}
                        /\ \A j \in 1..(i - 1) : cand(ArchPref[j]) = {}}
            a == IF args.pi.arch # "" THEN args.pi.arch
                 ELSE IF first = {} THEN ""
                 ELSE ArchPref[CHOOSE i \in first : TRUE]
        IN  IF a = "" \/ cand(a) = {} THEN ret.first = NotFound
            ELSE /\ ret.first[3] = a
                 /\ ret.first[2] \in cand(a)
                 /\ PackageInfo(args.pi.name, a, ret.first[1])
                        \in args.rm[ret.first[2]].packages

\* foo is asked for with no arch; a repository has foo.noarch at version 1
\* and foo.x86_64 at the highest version: foo.noarch 1 is the answer.
C32_Witness ==
    /\ ret.op = "latest"
    /\ args.pi.arch = ""
    /\ \E r \in RepoURLs : PackageInfo("foo", "x86_64", MaxVer) \in args.rm[r].packages
    /\ ret.first[3] = "noarch"
    /\ ret.first[1] = 1
    /\ MaxVer > 1

----------------------------------------------------------------------------
(* SpecSat: the satisfaction check on its own *)

\* The states the check is made against: at most one A and at most one P,
\* which provides libp bare or at a version.
SatStates ==
    {a \cup p :
        a \in {{}} \cup {{PackageState("A", "noarch", v, {}, {}, {}, FilesOf("A", "noarch"))} :
                            v \in Versions},
        p \in {{}} \cup {{PackageState("P", "noarch", 1, {}, {}, {<<"libp", v>>},
                                       FilesOf("P", "noarch"))} : v \in 0..MaxVer}}

\* The dependencies checked: an installed name, a provided name and a name
\* nothing has, with and without arch, at every version.
SatArgs ==
    [op : {"isSatisfied"},
     pi : {PackageInfo(n, a, v) : n \in {"A", "libp", "Q"}, a \in Archs, v \in Versions},
     state : SatStates]

InitSat ==
    /\ db = createDB
    /\ lastOp = NoOp
    /\ fetched = EmptyState
    /\ LockIdle
    /\ CmdIdle
    /\ args \in SatArgs
    /\ ret = NoCall

isSatisfiedCall ==
    /\ ret = NoCall
    /\ ret' = [op |-> "isSatisfied", ok |-> isSatisfied(args.pi, args.state)]
    /\ UNCHANGED <<args, dbVars, lockVars, cmdVars>>

NextSat == isSatisfiedCall

SpecSat == InitSat /\ [][NextSat]_vars

\* C15: a dependency (N, arch, >= w) is satisfied exactly when an installed
\* package has name N, the arch (or the dependency has none) and a version of
\* at least w, or an installed package provides N without a version, or
\* provides N = v with v >= w.
C15_Satisfied ==
    ret.op = "isSatisfied" =>
        (ret.ok <=>
            \/ \E p \in args.state :
                    /\ p.name = args.pi.name
                    /\ args.pi.arch \in {"", p.arch}
                    /\ p.ver >= args.pi.ver
            \/ \E p \in args.state : <<args.pi.name, 0>> \in p.provides
            \/ \E p \in args.state : \E v \in Versions :
                    <<args.pi.name, v>> \in p.provides /\ v >= args.pi.ver)

\* The dependency libp >= 2 is checked against a state whose P provides
\* libp = 1, and is not satisfied.
C15_Witness ==
    /\ ret.op = "isSatisfied"
    /\ ~ret.ok
    /\ args.pi.name = "libp" /\ args.pi.ver = 2
    /\ \E p \in args.state : <<"libp", 1>> \in p.provides

----------------------------------------------------------------------------
(* SpecExec: Execute of install and of remove over several arguments *)

\* The most arguments a command line is given.
MaxArgs == 2

\* The stores a command line is run on: nothing installed, or B and the A it
\* depends on, as install B leaves them.
ExecStores ==
    {{}, {p \in RepoMap : p.name = "B" \/ (p.name = "A" /\ p.arch = "noarch" /\ p.ver = MaxVer)}}

\* The command lines: install or remove, one to MaxArgs arguments, the flags.
ExecArgs ==
    [op : {"exec"}, kind : {"install"}, flags : Flags,
     list : UNION {[1..n -> {PackageInfo(x, "", 0) : x \in {"A", "B", "C", "Q"}}] : n \in 1..MaxArgs}]
    \cup
    [op : {"exec"}, kind : {"remove"}, flags : Flags,
     list : UNION {[1..n -> {PackageInfo(x, "", 0) : x \in {"A", "B", "C"}}] : n \in 1..MaxArgs}]

\* The results installFromRepo and removeOne return as an error.
IsError(r) == r \in {"notfound", "conflict", "failed", "cancelled"}

\* Only the error of the last argument is kept.
Join_lastOnly(errs, err) == err

\* errs = errors.Join(errs, err), read as errs != nil; status = ExitFailure in
\* remove.
Join(errs, err) == errs \/ err

InitExec ==
    /\ db \in ExecStores
    /\ lastOp = NoOp
    /\ fetched = EmptyState
    /\ LockIdle
    /\ CmdIdle
    /\ args \in ExecArgs
    /\ ret = [op |-> "exec", results |-> <<>>, errs |-> FALSE, exit |-> "running"]

\* A step of the loop over the arguments: when the handler of the argument
\* returns, its error is logged and joined and the loop goes on.
ExecStep(A) ==
    /\ A
    /\ args' = args
    /\ ret' = IF pc' = "idle"
              THEN [ret EXCEPT !.results = Append(@, res'),
                               !.errs = Join(@, IsError(res'))]
              ELSE ret

\* for _, arg := range flags.Args(): installFromRepo is called with the next
\* argument.
ExecInstall ==
    /\ args.kind = "install"
    /\ Len(ret.results) < Len(args.list)
    /\ ExecStep(installFromRepo(args.list[Len(ret.results) + 1],
                                args.flags[1], args.flags[2]))

\* for _, arg := range flags.Args(): removeOne is called with the next
\* argument.
ExecRemove ==
    /\ args.kind = "remove"
    /\ Len(ret.results) < Len(args.list)
    /\ ExecStep(removeOne(args.list[Len(ret.results) + 1],
                          args.flags[1], args.flags[2]))

\* After the last argument Execute returns ExitFailure when an error was
\* joined, ExitSuccess otherwise.
ExecuteReturns ==
    /\ pc = "idle"
    /\ ret.exit = "running"
    /\ Len(ret.results) = Len(args.list)
    /\ ret' = [ret EXCEPT !.exit = IF ret.errs THEN "ExitFailure" ELSE "ExitSuccess"]
    /\ UNCHANGED <<args, dbVars, lockVars, cmdVars>>

NextExec ==
    \/ ExecInstall
    \/ ExecRemove
    \/ ExecStep(ResolveConflicts)
    \/ ExecStep(InstallDeps)
    \/ ExecStep(Download)
    \/ ExecStep(Extract)
    \/ ExecStep(RunScript)
    \/ ExecStep(StepFails)
    \/ ExecStep(Cancel)
    \/ ExecStep(WriteState)
    \/ ExecStep(RemoveStep)
    \/ ExecStep(UninstallFails)
    \/ ExecuteReturns

SpecExec == InitExec /\ [][NextExec]_vars

----------------------------------------------------------------------------
(* SpecCall: functions called on their own *)

\* RunVerifyCommand is called with ps, the PackageState as far as it is read:
\* whether PackageSpec.Verify.Path is set, what is found at LocalPath (no
\* file, the archive as downloaded, the archive with a byte changed since, a
\* file that cannot be opened), whether Checksum and DownloadURL are saved;
\* with a proxyServer that is empty or does not parse; and in env, what the
\* calls it makes do: whether httpClient.Get, extractVerify, download.Package
\* and download.ExtractPkg succeed, and whether the verify script exits with
\* an accepted code when run from the extracted script alone (first) and
\* from the whole package (second).
VerifyArgs ==
    [op : {"verify"},
     ps : [hasVerify : BOOLEAN,
           local : {"missing", "intact", "changed", "unreadable"},
           checksum : BOOLEAN,
           url : BOOLEAN],
     proxy : {"", "bad"},
     env : [get : BOOLEAN, extractVerify : BOOLEAN, first : BOOLEAN,
            download : BOOLEAN, extractPkg : BOOLEAN, second : BOOLEAN]]

\* (ok, err) of RunVerifyCommand, and whether the archive was pulled from the
\* repository.
VerifyRet(ok, err, rd) == [op |-> "verify", ok |-> ok, err |-> err, pulled |-> rd]

\* The error of the verify script is returned to the caller.
verifyOutcome_fatal(scriptOk, rd) ==
    IF scriptOk THEN VerifyRet(TRUE, "nil", rd) ELSE VerifyRet(FALSE, "script", rd)

\* The last system.Verify: any error is deemed a verification failure.
verifyOutcome(scriptOk, rd) ==
    IF scriptOk THEN VerifyRet(TRUE, "nil", rd) ELSE VerifyRet(FALSE, "nil", rd)

\* RunVerifyCommand(ctx, ps, proxyServer).
RunVerifyCommand(ps, proxy, env) ==
    IF ~ps.hasVerify THEN VerifyRet(TRUE, "nil", FALSE)
    ELSE IF ps.local = "unreadable" THEN VerifyRet(FALSE, "open", FALSE)
    ELSE LET rd == ps.local = "missing" \/ (ps.checksum /\ ps.local = "changed")
         IN  IF rd /\ ~ps.url THEN VerifyRet(FALSE, "DownloadURL not saved", FALSE)
             ELSE IF rd /\ proxy = "bad" THEN VerifyRet(FALSE, "proxy", FALSE)
             ELSE IF rd /\ ~env.get THEN VerifyRet(FALSE, "get", FALSE)
             ELSE IF ~env.extractVerify THEN VerifyRet(FALSE, "extractVerify", rd)
             ELSE IF env.first THEN VerifyRet(TRUE, "nil", rd)
             ELSE IF rd /\ ~env.download THEN VerifyRet(FALSE, "redownloading", rd)
             ELSE IF ~env.extractPkg THEN VerifyRet(FALSE, "ExtractPkg", rd)
             ELSE verifyOutcome(env.second, rd)

RunVerifyCommandCall ==
    /\ ret = NoCall
    /\ args.op = "verify"
    /\ ret' = RunVerifyCommand(args.ps, args.proxy, args.env)
    /\ UNCHANGED <<args, dbVars, lockVars, cmdVars>>

\* updates is called with the PackageMap, holding foo.x86_64 at one version,
\* the RepoMap and dryRun.
UpdateArgs ==
    [op : {"updates"},
     pi : {PackageInfo("foo", "x86_64", v) : v \in Versions},
     rm : RepoMaps,
     dryRun : BOOLEAN]

\* updates(pm, rm, dryRun): for the installed package the version
\* FindRepoLatest selects; it is listed when that version is not the installed
\* one; dryRun changes what is printed only.  The lists the call may return.
updates(pi, rm, dryRun) ==
    {IF l = NotFound \/ l[1] = pi.ver THEN <<>>
     ELSE <<PackageInfo(pi.name, l[3], l[1])>> :
        l \in FindRepoLatestIn(PackageInfo(pi.name, pi.arch, 0), rm, ArchPref)}

updatesCall ==
    /\ ret = NoCall
    /\ args.op = "updates"
    /\ \E l \in updates(args.pi, args.rm, args.dryRun) :
            ret' = [op |-> "updates", list |-> l]
    /\ UNCHANGED <<args, dbVars, lockVars, cmdVars>>

\* check is run with -dry_run or without; apps names the packages of the
\* repository system.AppAssociation finds an application for, fatal those
\* install.ListDeps returns an error for, fails those install.FromRepo does.
CheckArgs ==
    [op : {"check"}, dryRun : BOOLEAN,
     apps : SUBSET {"P", "R"}, fatal : SUBSET {"P", "R"}, fails : SUBSET {"P", "R"}]

\* The loop of checkCmd.Execute over the packages s[1..k] of the repository: a
\* package whose name is installed or that has no application is passed
\* over; with -dry_run it is only logged; an error of ListDeps is fatal; an
\* error of FromRepo is logged and the loop goes on; otherwise FromRepo, run
\* with dbOnly, has put the package into newPkgs.
RECURSIVE checkLoop(_, _, _, _)
checkLoop(a, rows, s, k) ==
    IF k = 0 THEN [newPkgs |-> {}, unmanaged |-> {}, fatal |-> FALSE, failed |-> FALSE]
    ELSE LET acc == checkLoop(a, rows, s, k - 1)
             p == s[k]
         IN  IF acc.fatal \/ (\E r \in rows : r.name = p.name) \/ p.name \notin a.apps
             THEN acc
             ELSE LET found == [acc EXCEPT !.unmanaged = @ \cup {p.name}]
                  IN  IF a.dryRun THEN found
                      ELSE IF p.name \in a.fatal THEN [found EXCEPT !.fatal = TRUE]
                      ELSE IF p.name \in a.fails THEN [found EXCEPT !.failed = TRUE]
                      ELSE [found EXCEPT !.newPkgs =
                                resolveReplacements(p, StateAdd(@, p))]

\* checkCmd.Execute: exitCode starts as ExitFailure; after the loop newPkgs is
\* written when it is not empty and exitCode is returned; logger.Fatal ends the
\* process with status 1 at once.
checkExecute ==
    /\ ret = NoCall
    /\ args.op = "check"
    /\ LET s == StateSeq({p \in RepoMap : p.name \in {"P", "R"}})
           end == checkLoop(args, db, s, Len(s))
       IN  /\ db' = IF end.fatal THEN db
                    ELSE WriteStateRows(db, StateSeq(end.newPkgs), 0)
           /\ ret' = [op |-> "check", exit |-> "ExitFailure",
                      error |-> end.fatal \/ end.failed,
                      unmanaged |-> end.unmanaged]
    /\ UNCHANGED <<args, lastOp, fetched, lockVars, cmdVars>>

\* The packages of the repository ListDeps walks.
DepNames == {"A", "B", "C"}

\* ListDeps is called for A on a repository in which deps[n][m] is the
\* minimum version of m that n declares in PkgDependencies, 0 for none.
DepArgs ==
    [op : {"ListDeps"},
     deps : {g \in [DepNames -> [DepNames -> 0..MaxVer]] : \A n \in DepNames : g[n][n] = 0}]

\* The minimum kept for a dependency is the one declared last.
depMin_last(kept, new) == new

\* The minimum kept for a dependency: the greatest of those declared.
depMin(kept, new) == IF new > kept THEN new ELSE kept

\* ListDeps starts at the root: the walk holds the path from the root, with
\* the dependencies of each package on it still to visit, and the minimum
\* version found for each package.
ListDepsCall ==
    /\ ret = NoCall
    /\ args.op = "ListDeps"
    /\ ret' = [op |-> "walk",
               stack |-> <<[name |-> "A",
                            todo |-> {m \in DepNames : args.deps["A"][m] > 0}]>>,
               mins |-> [n \in DepNames |-> 0]]
    /\ UNCHANGED <<args, dbVars, lockVars, cmdVars>>

\* The walk takes a dependency of the package it is at: one that is on the
\* path ends the walk with DependencyCycle, another is entered.
ListDepsVisit ==
    /\ ret.op = "walk"
    /\ LET top == Head(ret.stack)
       IN  \E d \in top.todo :
            IF \E i \in 1..Len(ret.stack) : ret.stack[i].name = d
            THEN ret' = [op |-> "ListDeps", err |-> "DependencyCycle",
                         mins |-> [n \in DepNames |-> 0]]
            ELSE ret' = [ret EXCEPT
                    !.stack = <<[name |-> d,
                                 todo |-> {m \in DepNames : args.deps[d][m] > 0}],
                                [top EXCEPT !.todo = @ \ {d}]>> \o Tail(@),
                    !.mins[d] = depMin(@, args.deps[top.name][d])]
    /\ UNCHANGED <<args, dbVars, lockVars, cmdVars>>

\* The walk has visited every dependency of the package it is at: it goes
\* back to the package before, and from the root it returns the list.
ListDepsReturn ==
    /\ ret.op = "walk"
    /\ Head(ret.stack).todo = {}
    /\ ret' = IF Len(ret.stack) = 1
              THEN [op |-> "ListDeps", err |-> "nil", mins |-> ret.mins]
              ELSE [ret EXCEPT !.stack = Tail(@)]
    /\ UNCHANGED <<args, dbVars, lockVars, cmdVars>>

\* The function called and its arguments, and the store it is called on.
InitCall ==
    /\ db \in ExecStores
    /\ lastOp = NoOp
    /\ fetched = EmptyState
    /\ LockIdle
    /\ CmdIdle
    /\ args \in VerifyArgs \cup UpdateArgs \cup CheckArgs \cup DepArgs
    /\ ret = NoCall

NextCall ==
    \/ RunVerifyCommandCall
    \/ updatesCall
    \/ checkExecute
    \/ ListDepsCall
    \/ ListDepsVisit
    \/ ListDepsReturn

SpecCall == InitCall /\ [][NextCall]_vars

\* A call that has started goes on until it returns.
SpecCallFair == SpecCall /\ WF_vars(NextCall)

C28_ScriptFailureIsNotAnError ==
    [][ret'.op = "verify" =>
        LET ps == args.ps
            env == args.env
            rd == ps.local = "missing" \/ (ps.checksum /\ ps.local = "changed")
            io == /\ ps.local # "unreadable"
                  /\ rd => (ps.url /\ args.proxy # "bad" /\ env.get)
                  /\ env.extractVerify
                  /\ ~env.first => ((rd => env.download) /\ env.extractPkg)
        IN  /\ ~ps.hasVerify => (ret'.ok /\ ret'.err = "nil")
            /\ (ps.hasVerify /\ io /\ ~env.first /\ ~env.second)
                  => (~ret'.ok /\ ret'.err = "nil")
            /\ ret'.err # "nil" => (ps.hasVerify /\ ~io /\ ~ret'.ok)
            /\ db' = db]_vars

\* The verify script of a package has failed from the extracted script and
\* from the whole package, every other call having succeeded: (false, nil).
C28_Witness ==
    /\ ret.op = "verify"
    /\ args.ps.hasVerify /\ args.ps.local = "intact"
    /\ args.env.extractVerify /\ args.env.extractPkg
    /\ ~args.env.first /\ ~args.env.second
    /\ ~ret.ok /\ ret.err = "nil"
    /\ db # {}

\* C26: the update computation lists a package exactly when the version the
\* latest-version selection chooses for it (the highest version of the
\* repositories of the highest priority holding it) is not the installed one:
\* a higher version as an upgrade, a lower version of a repository of higher
\* priority as a rollback, an equal version not at all; with dryRun as
\* without.
C26_UpdatesWhenVersionDiffers ==
    ret.op = "updates" =>
        LET psm == psmOf(args.pi.name, args.pi.arch, args.rm)
        IN  ret.list =
                IF DOMAIN psm = {} \/ TopVersion(psm, args.rm) = args.pi.ver
                THEN <<>>
                ELSE <<PackageInfo(args.pi.name, args.pi.arch, TopVersion(psm, args.rm))>>

\* C27: the dependency walk ends on every repository content: with a cycle
\* among the packages reachable from the root it ends with DependencyCycle,
\* without one it lists every dependency with the greatest of the minimum
\* versions declared for it by the packages reached.
C27_WalkEnds ==
    /\ [](ret.op = "ListDeps" =>
            LET succ(n) == {m \in DepNames : args.deps[n][m] > 0}
                RECURSIVE reach(_)
                reach(S) == LET T == S \cup UNION {succ(n) : n \in S}
                            IN  IF T = S THEN S ELSE reach(T)
                R == reach({"A"})
                cyclic == \E n \in R : n \in reach(succ(n))
            IN  IF cyclic THEN ret.err = "DependencyCycle"
                ELSE /\ ret.err = "nil"
                     /\ \A n \in DepNames :
                            ret.mins[n] = Max({0} \cup {args.deps[m][n] : m \in R}))
    /\ <>(args.op = "ListDeps" => ret.op = "ListDeps")

\* The walk has returned the list for a root that depends on C directly at
\* version 1 and through B at version 2: C is listed with 2.
C27_Witness ==
    /\ ret.op = "ListDeps"
    /\ ret.err = "nil"
    /\ args.deps["A"]["C"] = 1 /\ args.deps["A"]["B"] > 0 /\ args.deps["B"]["C"] = 2
    /\ ret.mins["C"] = 2

\* C29: check exits with status 0 when it completes without an installation
\* error, and with status 1 only when an error occurred.
C29_CheckExitStatus ==
    ret.op = "check" => ((ret.exit = "ExitFailure") <=> ret.error)

----------------------------------------------------------------------------
(* SpecRepo: AvailableVersions and the cache of the repository indexes *)

\* The clock runs from 0 to MaxNow.
MaxNow == 3

\* The number of top-level arrays an index stream holds at most.
MaxArrays == 2

\* The repository URLs: two of them end in the same path element.
RepoSrcs == {"a/repo", "b/repo", "a/other"}

\* filepath.Base(p) + ".rs" in cacheDir.
CacheFile(p) == IF p = "a/other" THEN "other.rs" ELSE "repo.rs"

\* What a cache file holds: nothing written yet after Create, a part of the
\* JSON text, or the JSON text of an index; from is the URL it was fetched
\* from.
File(kind, index, mtime, from) ==
    [kind |-> kind, index |-> index, mtime |-> mtime, from |-> from]

NoFile == File("absent", <<>>, 0, "")

\* The index streams a server answers with: up to MaxArrays arrays of
\* RepoSpecs.
Streams ==
    UNION {[1..n -> {<<"x">>, <<"y">>}] : n \in 1..MaxArrays}

\* AvailableVersions is called with the sources, cacheDir and cacheLife;
\* index is what each server answers a successful GET with.
RepoArgs ==
    [op : {"AvailableVersions"},
     srcs : {<<"a/repo", "b/repo">>, <<"a/repo", "a/other">>},
     cacheLife : {1, 2},
     index : {[u \in RepoSrcs |-> IF u = "a/repo" THEN st ELSE <<<<"y">>>>] : st \in Streams}]

\* The cache file is taken for fresh whatever its age.
fresh_always(f, now, cacheLife) == f.kind # "absent"

\* err == nil && time.Since(fi.ModTime()) < cacheLife
fresh(f, now, cacheLife) == f.kind # "absent" /\ now - f.mtime < cacheLife

\* dec.Decode(&m): Unmarshal of an array into a slice sets the length of the
\* slice to zero and appends the elements of the array.
Decode(m, array) == array

\* for dec.More() { dec.Decode(&m) } over the arrays s[1..k] of a stream.
RECURSIVE decodeArrays(_, _)
decodeArrays(s, k) ==
    IF k = 0 THEN <<>> ELSE Decode(decodeArrays(s, k - 1), s[k])

\* The requests are made the other way round: index first, index.gz after
\* a status other than 200.
httpRequests_plainFirst(p, gz, plain) ==
    IF plain = "200" THEN <<<<p, "index", plain>>>>
    ELSE <<<<p, "index", plain>>, <<p, "index.gz", gz>>>>

\* unmarshalRepoPackagesHTTP: the requests made when GET index.gz answers gz
\* and GET index answers plain ("err" for an error of httpClient.Get).
httpRequests(p, gz, plain) ==
    IF gz \in {"200", "err"} THEN <<<<p, "index.gz", gz>>>>
    ELSE <<<<p, "index.gz", gz>>, <<p, "index", plain>>>>

\* No call of AvailableVersions is running; the cache files and the clock.
RepoIdle(files, now, rm) ==
    [op |-> "AvailableVersions", pc |-> "idle", i |-> 0, now |-> now,
     files |-> files, reqs |-> <<>>, body |-> <<>>, m |-> <<>>, rm |-> rm]

InitRepo ==
    /\ db = createDB
    /\ lastOp = NoOp
    /\ fetched = EmptyState
    /\ LockIdle
    /\ CmdIdle
    /\ args \in RepoArgs
    /\ ret = RepoIdle([f \in {"repo.rs", "other.rs"} |-> NoFile], 0, {})

\* The loop of AvailableVersions goes to the next source.
NextSrc(r) == [r EXCEPT !.pc = "stat", !.i = @ + 1, !.body = <<>>, !.m = <<>>]

\* AvailableVersions is called: rm := make(RepoMap).
AvailableVersions ==
    /\ args.op = "AvailableVersions"
    /\ ret.pc = "idle"
    /\ ret' = [ret EXCEPT !.pc = "stat", !.i = 1, !.reqs = <<>>, !.rm = {}]
    /\ UNCHANGED <<args, dbVars, lockVars, cmdVars>>

\* unmarshalRepoPackages up to the fetch: a fresh cache file is opened and
\* decoded, and what it holds is the index of the repository (an error when
\* the JSON text is cut off, no RepoSpec when the file is empty); an error of
\* Stat other than IsNotExist is returned; otherwise the index is fetched.
unmarshalRepoPackages ==
    /\ args.op = "AvailableVersions"
    /\ ret.pc = "stat"
    /\ ret.i <= Len(args.srcs)
    /\ LET p == args.srcs[ret.i]
           f == ret.files[CacheFile(p)]
       IN  \E statErr \in BOOLEAN :
            IF fresh(f, ret.now, args.cacheLife) /\ ~statErr
            THEN ret' = IF f.kind = "partial" THEN NextSrc(ret)
                        ELSE NextSrc([ret EXCEPT !.rm = @ \cup
                                {[url |-> p, index |-> f.index, from |-> f.from]}])
            ELSE IF statErr /\ f.kind # "absent" THEN ret' = NextSrc(ret)
            ELSE ret' = [ret EXCEPT !.pc = "http"]
    /\ UNCHANGED <<args, dbVars, lockVars, cmdVars>>

\* unmarshalRepoPackagesHTTP: GET index.gz; on a status other than 200 GET
\* index; an error of Get or a second status other than 200 is returned;
\* otherwise the body is read and handed to decode.
unmarshalRepoPackagesHTTP ==
    /\ args.op = "AvailableVersions"
    /\ ret.pc = "http"
    /\ LET p == args.srcs[ret.i]
       IN  \E gz, plain \in {"200", "404", "err"}, ok \in BOOLEAN :
            LET reqs == httpRequests(p, gz, plain)
                last == reqs[Len(reqs)][3]
            IN  IF last = "200"
                THEN ret' = [ret EXCEPT !.pc = "decode", !.reqs = @ \o reqs,
                                !.body = IF ok THEN args.index[p] ELSE <<>>]
                ELSE ret' = NextSrc([ret EXCEPT !.reqs = @ \o reqs])
    /\ UNCHANGED <<args, dbVars, lockVars, cmdVars>>

\* decode up to oswrap.Create(cf): a body that is no index is an error; the
\* arrays of the stream are decoded into m; Create truncates the cache file
\* or fails.
decode ==
    /\ args.op = "AvailableVersions"
    /\ ret.pc = "decode"
    /\ LET p == args.srcs[ret.i]
       IN  \E created \in BOOLEAN :
            IF ret.body = <<>> \/ ~created THEN ret' = NextSrc(ret)
            ELSE ret' = [ret EXCEPT
                    !.pc = "write",
                    !.m = decodeArrays(ret.body, Len(ret.body)),
                    !.files[CacheFile(p)] = File("empty", <<>>, ret.now, p)]
    /\ UNCHANGED <<args, dbVars, lockVars, cmdVars>>

\* decode from json.Marshal(m) on: f.Write(j) writes the text, a part of it
\* or nothing; after the whole text f.Close() and m is returned, and
\* AvailableVersions puts it into rm.
writeCache ==
    /\ args.op = "AvailableVersions"
    /\ ret.pc = "write"
    /\ LET p == args.srcs[ret.i]
       IN  \E written \in {"all", "part", "none"} :
            IF written = "all"
            THEN ret' = NextSrc([ret EXCEPT
                    !.files[CacheFile(p)] = File("index", ret.m, ret.now, p),
                    !.rm = @ \cup {[url |-> p, index |-> ret.m, from |-> p]}])
            ELSE IF written = "part"
            THEN ret' = NextSrc([ret EXCEPT
                    !.files[CacheFile(p)] = File("partial", <<>>, ret.now, p)])
            ELSE ret' = NextSrc(ret)
    /\ UNCHANGED <<args, dbVars, lockVars, cmdVars>>

\* AvailableVersions returns rm after the last source.
AvailableVersionsReturns ==
    /\ args.op = "AvailableVersions"
    /\ ret.pc = "stat"
    /\ ret.i > Len(args.srcs)
    /\ ret' = RepoIdle(ret.files, ret.now, ret.rm)
    /\ UNCHANGED <<args, dbVars, lockVars, cmdVars>>

\* The process is ended while AvailableVersions runs.
Interrupt ==
    /\ args.op = "AvailableVersions"
    /\ ret.pc \in {"stat", "http", "decode", "write"}
    /\ ret' = RepoIdle(ret.files, ret.now, {})
    /\ UNCHANGED <<args, dbVars, lockVars, cmdVars>>

\* Time passes between two runs of the client.
Tick ==
    /\ args.op = "AvailableVersions"
    /\ ret.pc = "idle"
    /\ ret.now < MaxNow
    /\ ret' = RepoIdle(ret.files, ret.now + 1, ret.rm)
    /\ UNCHANGED <<args, dbVars, lockVars, cmdVars>>

NextRepo ==
    \/ AvailableVersions
    \/ unmarshalRepoPackages
    \/ unmarshalRepoPackagesHTTP
    \/ decode
    \/ writeCache
    \/ AvailableVersionsReturns
    \/ Interrupt
    \/ Tick

SpecRepo == InitRepo /\ [][NextRepo]_vars

\* C33: while the cache file of a repository is fresh (now - mtime <
\* cacheLife) its index is taken from the cache file and no request is made
\* for it; once the file is missing or stale the index is not taken from the
\* cache file but fetched, and a fetch that succeeds leaves the cache file
\* holding the index that was fetched, written now.
C33_FreshCacheNoFetch ==
    [][(args.op = "AvailableVersions" /\ ret.pc \in {"stat", "write"}
        /\ ret.i <= Len(args.srcs) /\ ret'.pc # "idle")
       => LET p == args.srcs[ret.i]
              f == ret.files[CacheFile(p)]
              isFresh == f.kind # "absent" /\ ret.now - f.mtime < args.cacheLife
              got == {e \in ret'.rm \ ret.rm : e.url = p}
          IN  /\ (ret.pc = "stat" /\ isFresh)
                    => /\ ret'.pc # "http"
                       /\ ret'.reqs = ret.reqs
                       /\ ret'.files = ret.files
                       /\ \A e \in got : e.index = f.index
              /\ (ret.pc = "stat" /\ ~isFresh) => got = {}
              /\ (ret.pc = "write" /\ got # {})
                    => LET g == ret'.files[CacheFile(p)]
                       IN  /\ g.kind = "index" /\ g.mtime = ret.now
                           /\ \A e \in got : e.index = g.index /\ e.index = ret.m]_vars

\* The loop over the sources has ended without a request: the index of a
\* repository was taken from its fresh cache file, written at an earlier
\* time.
C33_Witness ==
    /\ args.op = "AvailableVersions"
    /\ ret.pc = "stat"
    /\ ret.i > Len(args.srcs)
    /\ ret.reqs = <<>>
    /\ \E e \in ret.rm : ret.files[CacheFile(e.url)].mtime < ret.now

\* C34: the index is put into the cache file atomically: whenever no fetch
\* is running the cache file is absent or holds a complete index, also
\* after a fetch that failed or was interrupted, and a run never takes a
\* cache file that is empty or cut off for the index of a repository.
C34_CacheAtomic ==
    [][args.op = "AvailableVersions"
       => /\ ret'.pc = "idle"
                => \A c \in DOMAIN ret'.files :
                        ret'.files[c].kind \in {"absent", "index"}
          /\ (ret.pc = "stat" /\ ret'.pc = "stat" /\ ret'.rm # ret.rm)
                => ret.files[CacheFile(args.srcs[ret.i])].kind = "index"]_vars

\* C35: for a repository the client requests index.gz first and index only
\* after index.gz was answered with a status other than 200; when both are
\* answered with another status the repository is left out of the RepoMap,
\* the cache file is not written and the loop goes on to the next
\* repository.
C35_GzipFirst ==
    [][(args.op = "AvailableVersions" /\ ret.pc = "http" /\ ret'.pc # "idle")
       => LET p == args.srcs[ret.i]
              new == SubSeq(ret'.reqs, Len(ret.reqs) + 1, Len(ret'.reqs))
          IN  /\ Len(new) \in {1, 2}
              /\ new[1][1] = p /\ new[1][2] = "index.gz"
              /\ Len(new) = 2
                    => /\ new[1][3] \notin {"200", "err"}
                       /\ new[2][1] = p /\ new[2][2] = "index"
              /\ (Len(new) = 2 /\ new[2][3] \notin {"200", "err"})
                    => /\ ret'.pc = "stat" /\ ret'.i = ret.i + 1
                       /\ ret'.rm = ret.rm
                       /\ ret'.files = ret.files]_vars

\* Both requests for the first repository were answered with 404: it is not
\* in the RepoMap and has no cache file, and the second repository was
\* fetched and is in the RepoMap.
C35_Witness ==
    /\ args.op = "AvailableVersions"
    /\ args.srcs = <<"a/repo", "a/other">>
    /\ ret.pc = "stat"
    /\ ret.i > Len(args.srcs)
    /\ Len(ret.reqs) > 2
    /\ ret.reqs[1] = <<"a/repo", "index.gz", "404">>
    /\ ret.reqs[2] = <<"a/repo", "index", "404">>
    /\ ret.files["repo.rs"].kind = "absent"
    /\ {e.url : e \in ret.rm} = {"a/other"}

\* C36: decoding an index stream of several top-level arrays gives the
\* RepoSpecs of all the arrays, those of each array after those of the
\* arrays before it.
C36_AllArraysKept ==
    (args.op = "AvailableVersions" /\ ret.pc = "write") =>
        LET RECURSIVE concat(_)
            concat(k) == IF k = 0 THEN <<>> ELSE concat(k - 1) \o ret.body[k]
        IN  ret.m = concat(Len(ret.body))

\* C39: two repository URLs never share a cache entry: the index
\* AvailableVersions returns for a URL was fetched from that URL.
C39_CachePerURL ==
    args.op = "AvailableVersions" => \A e \in ret.rm : e.from = e.url

----------------------------------------------------------------------------
(* SpecServe: gooserve, its periodic runSync and its index handler *)

\* The number of runs of runSync.
MaxSyncs == 2

\* The .goo files the package directory may hold.
GooFiles == {"p1", "p2", "p3"}

\* The response of the index handler: the RepoSpecs marshalled, or what a
\* read of the slice during an append gives, or the panic of a nil
\* repoContents.
Response(kind, body) == [kind |-> kind, body |-> body]

\* main before the first runSync: repoContents is nil and nothing listens.
InitServe ==
    /\ db = createDB
    /\ lastOp = NoOp
    /\ fetched = EmptyState
    /\ LockIdle
    /\ CmdIdle
    /\ args = [op |-> "gooserve"]
    /\ ret = [op |-> "gooserve", pc |-> "tick", syncs |-> 0, listening |-> FALSE,
              set |-> FALSE, g |-> [p \in GooFiles |-> "none"],
              rs |-> <<>>, last |-> <<>>, resp |-> Response("none", <<>>)]

\* json.MarshalIndent(repoContents.rs): the slice is read without
\* repoContents.mu; a read while a goroutine appends under the mutex is a
\* data race and gives the slice before the append, after it, or a slice
\* header of which only a part was written.
serveRead(r) ==
    IF ~r.set THEN {Response("panic", <<>>)}
    ELSE {Response("index", r.rs)}
         \cup UNION {{Response("index", Append(r.rs, p)), Response("torn", <<>>)} :
                        p \in {q \in GooFiles : r.g[q] = "add"}}

\* runSync up to the goroutines: the directory is scanned for *.goo; an
\* error of the scan is returned; otherwise repoContents is replaced by an
\* empty repoPackages and one goroutine per package is started.  main calls
\* it once before it starts the server and then at every tick.
runSync ==
    /\ args.op = "gooserve"
    /\ ret.pc = "tick"
    /\ ret.syncs < MaxSyncs
    /\ \E pkgs \in SUBSET GooFiles, scanErr \in BOOLEAN :
        IF scanErr
        THEN ret' = [ret EXCEPT !.syncs = @ + 1, !.listening = TRUE]
        ELSE ret' = [ret EXCEPT !.pc = "sync", !.syncs = @ + 1, !.set = TRUE, !.rs = <<>>,
                        !.g = [p \in GooFiles |-> IF p \in pkgs THEN "run" ELSE "none"]]
    /\ UNCHANGED <<args, dbVars, lockVars, cmdVars>>

\* A goroutine of runSync: the package is opened and ExtractPkgSpec reads
\* its spec; on an error the goroutine ends; otherwise it calls add, which
\* takes repoContents.mu.
ExtractPkgSpec ==
    /\ args.op = "gooserve"
    /\ ret.pc = "sync"
    /\ \E p \in GooFiles, ok \in BOOLEAN :
        /\ ret.g[p] = "run"
        /\ ok => \A q \in GooFiles : ret.g[q] # "add"
        /\ ret' = [ret EXCEPT !.g[p] = IF ok THEN "add" ELSE "done"]
    /\ UNCHANGED <<args, dbVars, lockVars, cmdVars>>

\* repoPackages.add: r.rs = append(r.rs, ...), then the deferred Unlock.
add ==
    /\ args.op = "gooserve"
    /\ ret.pc = "sync"
    /\ \E p \in GooFiles :
        /\ ret.g[p] = "add"
        /\ ret' = [ret EXCEPT !.g[p] = "done", !.rs = Append(@, p)]
    /\ UNCHANGED <<args, dbVars, lockVars, cmdVars>>

\* wg.Wait() returns when every goroutine is done, and runSync returns nil.
runSyncReturns ==
    /\ args.op = "gooserve"
    /\ ret.pc = "sync"
    /\ \A p \in GooFiles : ret.g[p] \in {"none", "done"}
    /\ ret' = [ret EXCEPT !.pc = "tick", !.listening = TRUE, !.last = ret.rs,
                          !.g = [p \in GooFiles |-> "none"]]
    /\ UNCHANGED <<args, dbVars, lockVars, cmdVars>>

\* serve: a request for the index is answered at any time once main has
\* started the server.
serve ==
    /\ args.op = "gooserve"
    /\ ret.listening
    /\ \E out \in serveRead(ret) : ret' = [ret EXCEPT !.resp = out]
    /\ UNCHANGED <<args, dbVars, lockVars, cmdVars>>

NextServe ==
    \/ runSync
    \/ ExtractPkgSpec
    \/ add
    \/ runSyncReturns
    \/ serve

SpecServe == InitServe /\ [][NextServe]_vars

\* C40: an index request served while a periodic runSync is in progress
\* never gets a partly built index: the response holds the packages of the
\* last completed sync or all those of the new one, and the handler never
\* reads the package list while a goroutine of the sync is appending to it.
C40_NoPartialIndex ==
    [][(args.op = "gooserve" /\ ret.listening /\ ret'.resp # ret.resp
        /\ ret'.pc = ret.pc /\ ret'.g = ret.g /\ ret.set)
       => /\ \A p \in GooFiles : ret.g[p] # "add"
          /\ ret'.resp.kind = "index"
          /\ \/ ret'.resp.body = ret.last
             \/ /\ \A p \in GooFiles : ret.g[p] \in {"none", "done"}
                /\ ret'.resp.body = ret.rs]_vars

=============================================================================
